---- MODULE Spec2Model ----
(***************************************************************************)
(* Container lifecycle and readiness synchronisation of sqltestutil:       *)
(* StartPostgresContainer (both the variant taking options and the variant *)
(* without), waitUntilHealthy, waitUntilConnectable and Shutdown.          *)
(*                                                                         *)
(* One invocation of StartPostgresContainer is a sequential process whose  *)
(* position is pc.  Every call to the container runtime or to the SQL      *)
(* driver is one step and is appended to the history variable calls.  The  *)
(* environment (caller cancellation, expiry of the startup deadline, the   *)
(* outcome of each external call) is nondeterministic.                     *)
(***************************************************************************)
EXTENDS Integers, Sequences, FiniteSets, TLC

VARIABLES
    variant,     \* which StartPostgresContainer: "options" or "plain"
    options,     \* the options argument (a sequence of Option values)
    pc,          \* position of the invocation
    callerDone,  \* the caller's context is cancelled
    scope,       \* state of the context.WithTimeout scope
    ctxVar,      \* what the variable ctx holds: "caller" or "scope"
    password,    \* local password (result of randomPassword)
    config,      \* *PostgresContainerConfig after the options are applied
    port,        \* local port (result of randomPort)
    createReq,   \* the request passed to ContainerCreate
    createID,    \* createResp.ID
    errCnr,      \* the error variable the deferred closures read
    defers,      \* stack of deferred functions, last registered first
    connStr,     \* local connStr
    sleeps,      \* number of time.Sleep(waitInterval) made so far
    ret,         \* what StartPostgresContainer returned
    containers,  \* the runtime: container id -> state
    calls,       \* history of the external calls made, in order
    shutdownRet, \* what Shutdown returned
    randpw,      \* one call of randomPassword
    conc,        \* two concurrent invocations of StartPostgresContainer
    mig,         \* one call of RunMigrations
    scn,         \* one call of LoadScenario
    polling      \* the two polling loops of StartPostgresContainer, unbounded

\* the state of one invocation of StartPostgresContainer and of Shutdown
startVars == <<variant, options, pc, callerDone, scope, ctxVar, password, config,
               port, createReq, createID, errCnr, defers, connStr, sleeps, ret,
               containers, calls, shutdownRet>>

\* the state of the functions modelled on their own
aux == <<randpw, conc, mig, scn, polling>>

vars == <<startVars, aux>>

----------------------------------------------------------------------------
(* Bounds of the model *)

\* longest options list passed to StartPostgresContainer
MaxOpts == 2
\* most time.Sleep(waitInterval) calls of one invocation
MaxSleeps == 2

----------------------------------------------------------------------------
(* Values *)

Nil == "<nil>"
NoHandle == [id |-> Nil, password |-> Nil, port |-> Nil, connStr |-> Nil]
NoReq == [image |-> Nil, env |-> <<>>, hostPort |-> Nil]

Canceled == "context canceled"
DeadlineExceeded == "context deadline exceeded"

Variants == {"options", "plain"}
Version == "15"
ContainerIds == {"c1", "c2"}
Ports == {"49153"}
GenPasswords == {"qWeRtYuIoPaSdFgHjKlZxCvBnMqWeRtY"}

\* the argument of the i-th option of a list
ArgAt(i) == CASE i = 1 -> "alpha" [] i = 2 -> "beta" [] i = 3 -> "gamma" [] OTHER -> "delta"

OptionKinds == {"WithDBName", "WithDBUser", "WithDBPassword", "WithTimeZone", "WithSSLMode"}

OptionLists ==
    UNION { { [i \in 1..n |-> [kind |-> k[i], arg |-> ArgAt(i)]] : k \in [1..n -> OptionKinds] }
            : n \in 0..MaxOpts }

----------------------------------------------------------------------------
(* PostgresContainerConfig and its setters *)

WithDBName(dbName, c) == [c EXCEPT !.DBName = dbName]
\* a setter that writes the neighbouring field
WithDBUserSetsName(dbUser, c) == [c EXCEPT !.DBName = dbUser]
WithDBUser(dbUser, c) == [c EXCEPT !.DBUser = dbUser]
WithDBPassword(dbPassword, c) == [c EXCEPT !.DBPassword = dbPassword]
WithTimeZone(timeZone, c) == [c EXCEPT !.TimeZone = timeZone]
WithSSLMode(sslMode, c) == [c EXCEPT !.SSLMode = sslMode]

\* option(config): calling one Option closure
ApplyOption(o, c) ==
    CASE o.kind = "WithDBName" -> WithDBName(o.arg, c)
      [] o.kind = "WithDBUser" -> WithDBUser(o.arg, c)
      [] o.kind = "WithDBPassword" -> WithDBPassword(o.arg, c)
      [] o.kind = "WithTimeZone" -> WithTimeZone(o.arg, c)
      [] o.kind = "WithSSLMode" -> WithSSLMode(o.arg, c)

DefaultConfig(pw) ==
    [DBName |-> "pgtest", DBUser |-> "pgtest", DBPassword |-> pw,
     TimeZone |-> "UTC", SSLMode |-> "disable"]

RECURSIVE ApplyOptions(_, _)
\* for _, option := range options { option(config) }
ApplyOptions(opts, c) ==
    IF opts = <<>> THEN c
    ELSE ApplyOptions(Tail(opts), ApplyOption(Head(opts), c))

\* the configuration the instance is created with
BuildConfig(v, pw, opts) ==
    IF v = "options" THEN ApplyOptions(opts, DefaultConfig(pw))
    ELSE DefaultConfig(pw)

\* container.Config.Env of the create request
CreateEnv(v, c) ==
    IF v = "options"
    THEN << "POSTGRES_DB=" \o c.DBName,
            "POSTGRES_PASSWORD=" \o c.DBPassword,
            "POSTGRES_USER=" \o c.DBUser,
            "TZ=" \o c.TimeZone >>
    ELSE << "POSTGRES_DB=pgtest",
            "POSTGRES_PASSWORD=" \o c.DBPassword,
            "POSTGRES_USER=pgtest" >>

\* a format that keeps the fixed user and database names
FormatConnStrFixedNames(v, c, pw, p) ==
    "postgres://pgtest:" \o pw \o "@127.0.0.1:" \o p \o "/pgtest?sslmode=" \o c.SSLMode

\* fmt.Sprintf of the connection string
FormatConnStr(v, c, pw, p) ==
    IF v = "options"
    THEN "postgres://" \o c.DBUser \o ":" \o pw \o "@127.0.0.1:" \o p
             \o "/" \o c.DBName \o "?sslmode=" \o c.SSLMode
    ELSE "postgres://pgtest:" \o pw \o "@127.0.0.1:" \o p \o "/pgtest"

----------------------------------------------------------------------------
(* Contexts *)

\* ctx.Done() is closed
CtxDone == IF ctxVar = "scope" THEN scope # "live" ELSE callerDone

\* ctx.Err()
CtxErr ==
    IF ctxVar = "scope" THEN (IF scope = "live" THEN Nil ELSE scope)
    ELSE (IF callerDone THEN Canceled ELSE Nil)

\* the error an external call may return for reasons of its own
DaemonErr(op) == op \o ": error response from daemon"

\* outcomes of a context-aware external call: it fails with the context's
\* error when the context is done, else it succeeds or fails on its own
CallErrs(op) == IF CtxDone THEN {CtxErr} ELSE {Nil, DaemonErr(op)}

\* the function that makes the call
By == IF pc \in {"Shutdown", "ShutdownRemove"} THEN "Shutdown" ELSE "StartPostgresContainer"

Call(op, target, res) ==
    [op |-> op, target |-> target, res |-> res, ctx |-> CtxErr, by |-> By]

Log(op, target, res) == calls' = Append(calls, Call(op, target, res))

Image == "postgres:" \o Version

----------------------------------------------------------------------------
\* the entry of StartPostgresContainer
StartInit ==
    /\ variant \in Variants
    /\ options \in (IF variant = "options" THEN OptionLists ELSE {<<>>})
    /\ pc = "NewClient"
    /\ callerDone = FALSE
    /\ scope = "unset"
    /\ ctxVar = "caller"
    /\ password = Nil
    /\ config = DefaultConfig(Nil)
    /\ port = Nil
    /\ createReq = NoReq
    /\ createID = Nil
    /\ errCnr = Nil
    /\ defers = <<>>
    /\ connStr = Nil
    /\ sleeps = 0
    /\ ret = [handle |-> NoHandle, err |-> Nil]
    /\ containers = [c \in ContainerIds |-> "absent"]
    /\ calls = <<>>
    /\ shutdownRet = Nil

\* a function that is not called in the specification at hand
Idle == [pc |-> "idle"]

Init ==
    /\ StartInit
    /\ randpw = Idle /\ conc = Idle /\ mig = Idle /\ scn = Idle /\ polling = Idle

----------------------------------------------------------------------------
(* StartPostgresContainer *)

\* deferred functions run first registered first
PushDeferFIFO(d, ds) == Append(ds, d)

\* defer d: the deferred functions run last registered first; ds lists them
\* in the order they will run
PushDefer(d, ds) == <<d>> \o ds

\* return h, e: the results are fixed, then the deferred functions run
Return(h, e) ==
    /\ ret' = [handle |-> h, err |-> e]
    /\ pc' = "defers"

\* an inspect that fails on every error as if the image were missing
NotFoundAny(e) == TRUE

\* _, notFound := err.(interface{ NotFound() })
NotFound(e) == e = "No such image"

\* cli, err := client.NewClientWithOpts(client.FromEnv); an error panics:
\* nothing is returned and nothing was deferred; else cli.Close is deferred
NewClient ==
    /\ pc = "NewClient"
    /\ \/ /\ pc' = "ImageInspect"
          /\ defers' = PushDefer("close", defers)
       \/ /\ pc' = "panicked"
          /\ UNCHANGED defers
    /\ UNCHANGED <<variant, options, callerDone, scope, ctxVar, password, config,
                   port, createReq, createID, errCnr, connStr, sleeps, ret,
                   containers, calls, shutdownRet>>
    /\ UNCHANGED aux

\* cli.ImageInspectWithRaw(ctx, image)
ImageInspect ==
    /\ pc = "ImageInspect"
    /\ \E e \in (IF CtxDone THEN {CtxErr}
                 ELSE {Nil, "No such image", DaemonErr("ImageInspect")}) :
        /\ Log("ImageInspect", Image, e)
        /\ IF e = Nil THEN pc' = "randomPassword" /\ UNCHANGED ret
           ELSE IF NotFound(e) THEN pc' = "ImagePull" /\ UNCHANGED ret
           ELSE Return(NoHandle, e)
    /\ UNCHANGED <<variant, options, callerDone, scope, ctxVar, password, config,
                   port, createReq, createID, errCnr, defers, connStr, sleeps,
                   containers, shutdownRet>>
    /\ UNCHANGED aux

\* cli.ImagePull(ctx, image, ...)
ImagePull ==
    /\ pc = "ImagePull"
    /\ \E e \in CallErrs("ImagePull") :
        /\ Log("ImagePull", Image, e)
        /\ IF e = Nil THEN pc' = "Drain" /\ UNCHANGED ret
           ELSE Return(NoHandle, e)
    /\ UNCHANGED <<variant, options, callerDone, scope, ctxVar, password, config,
                   port, createReq, createID, errCnr, defers, connStr, sleeps,
                   containers, shutdownRet>>
    /\ UNCHANGED aux

\* a drain whose error is dropped
DrainFailedNever(e) == FALSE

\* _, err = io.Copy(...); if err != nil { return nil, err }
DrainFailed(e) == e # Nil

\* io.Copy(io.Discard, pullReader); pullReader.Close()
Drain ==
    /\ pc = "Drain"
    /\ \E e \in CallErrs("io.Copy") :
        /\ Log("io.Copy", Image, e)
        /\ IF DrainFailed(e) THEN Return(NoHandle, e)
           ELSE pc' = "randomPassword" /\ UNCHANGED ret
    /\ UNCHANGED <<variant, options, callerDone, scope, ctxVar, password, config,
                   port, createReq, createID, errCnr, defers, connStr, sleeps,
                   containers, shutdownRet>>
    /\ UNCHANGED aux

\* password, err := randomPassword(), then the configuration is built
RandomPassword ==
    /\ pc = "randomPassword"
    /\ \/ /\ \E g \in GenPasswords :
                /\ password' = g
                /\ config' = BuildConfig(variant, g, options)
          /\ Log("randomPassword", Nil, Nil)
          /\ pc' = "randomPort"
          /\ UNCHANGED ret
       \/ /\ Log("randomPassword", Nil, "rand: entropy source failed")
          /\ Return(NoHandle, "rand: entropy source failed")
          /\ UNCHANGED <<password, config>>
    /\ UNCHANGED <<variant, options, callerDone, scope, ctxVar, port, createReq,
                   createID, errCnr, defers, connStr, sleeps, containers,
                   shutdownRet>>
    /\ UNCHANGED aux

\* port, err := randomPort()
RandomPort ==
    /\ pc = "randomPort"
    /\ \/ /\ \E p \in Ports : port' = p
          /\ Log("randomPort", Nil, Nil)
          /\ pc' = "ContainerCreate"
          /\ UNCHANGED ret
       \/ /\ Log("randomPort", Nil, "listen tcp 127.0.0.1:0: error")
          /\ Return(NoHandle, "listen tcp 127.0.0.1:0: error")
          /\ UNCHANGED port
    /\ UNCHANGED <<variant, options, callerDone, scope, ctxVar, password, config,
                   createReq, createID, errCnr, defers, connStr, sleeps,
                   containers, shutdownRet>>
    /\ UNCHANGED aux

\* cli.ContainerCreate(ctx, ...), then the deferred remove is registered
ContainerCreate ==
    /\ pc = "ContainerCreate"
    /\ createReq' = [image |-> Image, env |-> CreateEnv(variant, config),
                     hostPort |-> port]
    /\ \E e \in CallErrs("ContainerCreate") :
        IF e = Nil
        THEN \E id \in ContainerIds :
                /\ containers[id] = "absent"
                /\ createID' = id
                /\ containers' = [containers EXCEPT ![id] = "created"]
                /\ Log("ContainerCreate", id, Nil)
                /\ errCnr' = Nil
                /\ defers' = PushDefer("remove", defers)
                /\ pc' = "ContainerStart"
                /\ UNCHANGED ret
        ELSE /\ Log("ContainerCreate", Nil, e)
             /\ errCnr' = e
             /\ Return(NoHandle, e)
             /\ UNCHANGED <<createID, containers, defers>>
    /\ UNCHANGED <<variant, options, callerDone, scope, ctxVar, password, config,
                   port, connStr, sleeps, shutdownRet>>
    /\ UNCHANGED aux

\* ctx, cancel := context.WithTimeout(ctx, waitTimeout): the new scope is
\* already cancelled when its parent is
WithTimeout == IF callerDone THEN Canceled ELSE "live"

\* cli.ContainerStart(ctx, id, ...); on success the deferred stop is
\* registered, ctx is replaced by the timeout scope and cancel is deferred
ContainerStart ==
    /\ pc = "ContainerStart"
    /\ \E e \in CallErrs("ContainerStart") :
        /\ Log("ContainerStart", createID, e)
        /\ errCnr' = e
        /\ IF e = Nil
           THEN /\ containers' = [containers EXCEPT ![createID] = "running"]
                /\ defers' = PushDefer("cancel", PushDefer("stop", defers))
                /\ ctxVar' = "scope"
                /\ scope' = WithTimeout
                /\ pc' = "healthSelect"
                /\ UNCHANGED ret
           ELSE /\ Return(NoHandle, e)
                /\ UNCHANGED <<containers, defers, ctxVar, scope>>
    /\ UNCHANGED <<variant, options, callerDone, password, config, port,
                   createReq, createID, connStr, sleeps, shutdownRet>>
    /\ UNCHANGED aux

----------------------------------------------------------------------------
(* Health polling: waitUntilHealthy, and the in-line HealthCheck loop of   *)
(* the variant without options                                             *)

\* What a return out of the health loop leaves in the error variable that
\* the deferred closures read.  With options, errCnr = waitUntilHealthy(...)
\* assigns it.  Without options the loop declares its own err
\* (inspect, err := ...) and returns values directly, so the outer err keeps
\* the nil that ContainerStart left in it.
HealthLoopErr(v, e, cur) == IF v = "options" THEN e ELSE cur

\* the error returned for a failed inspect
InspectErr(v, e) ==
    IF v = "options" THEN "error inspecting container: " \o e ELSE e

\* a done context reported as no error
SelectErrNil == Nil

\* case <-ctx.Done(): return ctx.Err()
SelectErr == CtxErr

\* the health loop is left with status "healthy": the connection string is
\* formatted and waitUntilConnectable is entered
HealthAdvance ==
    /\ connStr' = FormatConnStr(variant, config, password, port)
    /\ pc' = "sqlOpen"
    /\ UNCHANGED ret

\* the health loop is left by a return of e.  With options this is the
\* return of waitUntilHealthy, followed by
\* if errCnr != nil { return nil, errCnr }; without, it is return nil, e
HealthReturn(e) ==
    /\ errCnr' = HealthLoopErr(variant, e, errCnr)
    /\ IF variant = "options" /\ e = Nil
       THEN HealthAdvance
       ELSE Return(NoHandle, e) /\ UNCHANGED connStr

\* select { case <-ctx.Done(): return ctx.Err(); default: } of the health loop
HealthSelect ==
    /\ pc = "healthSelect"
    /\ IF CtxDone
       THEN /\ Log("select", "health", "done")
            /\ HealthReturn(SelectErr)
       ELSE /\ Log("select", "health", "default")
            /\ pc' = "ContainerInspect"
            /\ UNCHANGED <<errCnr, ret, connStr>>
    /\ UNCHANGED <<variant, options, callerDone, scope, ctxVar, password, config,
                   port, createReq, createID, defers, sleeps,
                   containers, shutdownRet>>
    /\ UNCHANGED aux

\* a switch that takes every status but "unhealthy" as ready
HealthVerdictEager(status) ==
    CASE status = "unhealthy" -> "fail"
      [] OTHER -> "advance"

\* a switch that polls again on "unhealthy"
HealthVerdictRetry(status) ==
    CASE status = "healthy" -> "advance"
      [] OTHER -> "sleep"

\* switch status: "unhealthy" fails, "healthy" leaves the loop, anything
\* else sleeps and polls again
HealthVerdict(status) ==
    CASE status = "unhealthy" -> "fail"
      [] status = "healthy" -> "advance"
      [] OTHER -> "sleep"

\* the health statuses an inspect may report
Statuses == {"healthy", "unhealthy"} \cup (IF sleeps < MaxSleeps THEN {"starting"} ELSE {})

\* cli.ContainerInspect(ctx, id) and the switch on the reported status
ContainerInspect ==
    /\ pc = "ContainerInspect"
    /\ \/ \E e \in CallErrs("ContainerInspect") \ {Nil} :
            /\ Log("ContainerInspect", createID, e)
            /\ HealthReturn(InspectErr(variant, e))
       \/ /\ ~CtxDone
          /\ \E status \in Statuses :
               /\ Log("ContainerInspect", createID, status)
               /\ CASE HealthVerdict(status) = "fail" ->
                         HealthReturn("container unhealthy")
                    [] HealthVerdict(status) = "advance" ->
                         IF variant = "options" THEN HealthReturn(Nil)
                         ELSE HealthAdvance /\ UNCHANGED errCnr
                    [] OTHER ->
                         /\ pc' = "healthSleep"
                         /\ UNCHANGED <<errCnr, connStr, ret>>
    /\ UNCHANGED <<variant, options, callerDone, scope, ctxVar, password, config,
                   port, createReq, createID, defers, sleeps, containers,
                   shutdownRet>>
    /\ UNCHANGED aux

\* a health loop that inspects again after the sleep without the select
HealthSleepNoCheck ==
    /\ pc = "healthSleep"
    /\ Log("time.Sleep", "health", Nil)
    /\ sleeps' = sleeps + 1
    /\ pc' = "ContainerInspect"
    /\ UNCHANGED <<variant, options, callerDone, scope, ctxVar, password, config,
                   port, createReq, createID, errCnr, defers, connStr, ret,
                   containers, shutdownRet>>
    /\ UNCHANGED aux

\* time.Sleep(waitInterval) of the health loop
HealthSleep ==
    /\ pc = "healthSleep"
    /\ Log("time.Sleep", "health", Nil)
    /\ sleeps' = sleeps + 1
    /\ pc' = "healthSelect"
    /\ UNCHANGED <<variant, options, callerDone, scope, ctxVar, password, config,
                   port, createReq, createID, errCnr, defers, connStr, ret,
                   containers, shutdownRet>>
    /\ UNCHANGED aux

----------------------------------------------------------------------------
(* Connectivity polling: waitUntilConnectable *)

\* the handle built by the final return
NewHandle == [id |-> createID, password |-> password, port |-> port, connStr |-> connStr]

\* a final return that hands out the handle together with the error
ConnReturnBoth(e) ==
    /\ errCnr' = e
    /\ Return(NewHandle, e)

\* errCnr = waitUntilConnectable(ctx, connStr) returned e:
\* if errCnr != nil { return nil, errCnr }; return &PostgresContainer{...}, nil
ConnReturn(e) ==
    /\ errCnr' = e
    /\ IF e # Nil THEN Return(NoHandle, e) ELSE Return(NewHandle, Nil)

\* db, err := sql.Open("pgx", connStr)
SqlOpen ==
    /\ pc = "sqlOpen"
    /\ \E e \in {Nil, "sql.Open: cannot parse connection string"} :
        /\ Log("sql.Open", connStr, e)
        /\ IF e = Nil THEN pc' = "connSelect" /\ UNCHANGED <<ret, errCnr>>
           ELSE ConnReturn(e)
    /\ UNCHANGED <<variant, options, callerDone, scope, ctxVar, password, config,
                   port, createReq, createID, defers, connStr, sleeps,
                   containers, shutdownRet>>
    /\ UNCHANGED aux

\* select { case <-ctx.Done(): return ctx.Err(); default: } of the ping loop
ConnSelect ==
    /\ pc = "connSelect"
    /\ IF CtxDone
       THEN /\ Log("select", "connect", "done")
            /\ ConnReturn(SelectErr)
       ELSE /\ Log("select", "connect", "default")
            /\ pc' = "Ping"
            /\ UNCHANGED <<errCnr, ret>>
    /\ UNCHANGED <<variant, options, callerDone, scope, ctxVar, password, config,
                   port, createReq, createID, defers, connStr, sleeps,
                   containers, shutdownRet>>
    /\ UNCHANGED aux

\* outcomes of db.PingContext(ctx)
PingErrs ==
    IF CtxDone THEN {CtxErr}
    ELSE {Nil} \cup (IF sleeps < MaxSleeps THEN {"ping: connection refused"} ELSE {})

\* a ping loop that ends on the first ping, whatever its result
PingReadyAlways(e) == TRUE

\* if err == nil { return nil }
PingReady(e) == e = Nil

\* db.PingContext(ctx); a nil error ends waitUntilConnectable, any other
\* sleeps and pings again
Ping ==
    /\ pc = "Ping"
    /\ \E e \in PingErrs :
        /\ Log("Ping", connStr, e)
        /\ IF PingReady(e)
           THEN ConnReturn(Nil)
           ELSE /\ pc' = "connSleep"
                /\ UNCHANGED <<errCnr, ret>>
    /\ UNCHANGED <<variant, options, callerDone, scope, ctxVar, password, config,
                   port, createReq, createID, defers, connStr, sleeps,
                   containers, shutdownRet>>
    /\ UNCHANGED aux

\* time.Sleep(waitInterval) of the ping loop
ConnSleep ==
    /\ pc = "connSleep"
    /\ Log("time.Sleep", "connect", Nil)
    /\ sleeps' = sleeps + 1
    /\ pc' = "connSelect"
    /\ UNCHANGED <<variant, options, callerDone, scope, ctxVar, password, config,
                   port, createReq, createID, errCnr, defers, connStr, ret,
                   containers, shutdownRet>>
    /\ UNCHANGED aux

----------------------------------------------------------------------------
(* The deferred functions, run last registered first once the results are  *)
(* fixed                                                                   *)

\* outcomes of ContainerRemove without Force: the runtime refuses to remove
\* a running container
RemoveErrs(id) ==
    IF CtxDone THEN {CtxErr}
    ELSE IF containers[id] = "running"
         THEN {"ContainerRemove: cannot remove a running container"}
         ELSE {Nil, DaemonErr("ContainerRemove")}

\* rollback closures without the guard
RollbackFiresAlways == TRUE

\* a rollback guard with the test inverted
RollbackFiresInverted == errCnr = Nil

\* if errCnr != nil, the guard of both deferred rollback closures
RollbackFires == errCnr # Nil

\* a rollback closure that reports its own failure as the result
RollbackResultEscalates(e, r) == IF e # Nil THEN [r EXCEPT !.err = e] ELSE r

\* if stopErr != nil { fmt.Println(...); return }: the closure only prints
\* its error; the results of the unnamed return values stay as returned
RollbackResult(e, r) == r

\* defer cancel()
DeferCancel ==
    /\ pc = "defers"
    /\ defers # <<>> /\ Head(defers) = "cancel"
    /\ scope' = IF scope = "live" THEN Canceled ELSE scope
    /\ Log("cancel", "scope", Nil)
    /\ defers' = Tail(defers)
    /\ UNCHANGED <<variant, options, pc, callerDone, ctxVar, password, config,
                   port, createReq, createID, errCnr, connStr, sleeps, ret,
                   containers, shutdownRet>>
    /\ UNCHANGED aux

\* defer func() { if errCnr != nil { cli.ContainerStop(ctx, id, nil) ... } }()
DeferStop ==
    /\ pc = "defers"
    /\ defers # <<>> /\ Head(defers) = "stop"
    /\ IF RollbackFires
       THEN \E e \in CallErrs("ContainerStop") :
               /\ Log("ContainerStop", createID, e)
               /\ containers' = IF e = Nil
                                THEN [containers EXCEPT ![createID] = "exited"]
                                ELSE containers
               /\ ret' = RollbackResult(e, ret)
       ELSE UNCHANGED <<calls, containers, ret>>
    /\ defers' = Tail(defers)
    /\ UNCHANGED <<variant, options, pc, callerDone, scope, ctxVar, password,
                   config, port, createReq, createID, errCnr, connStr, sleeps,
                   shutdownRet>>
    /\ UNCHANGED aux

\* defer func() { if errCnr != nil { cli.ContainerRemove(ctx, id, ...) ... } }()
DeferRemove ==
    /\ pc = "defers"
    /\ defers # <<>> /\ Head(defers) = "remove"
    /\ IF RollbackFires
       THEN \E e \in RemoveErrs(createID) :
               /\ Log("ContainerRemove", createID, e)
               /\ containers' = IF e = Nil
                                THEN [containers EXCEPT ![createID] = "absent"]
                                ELSE containers
               /\ ret' = RollbackResult(e, ret)
       ELSE UNCHANGED <<calls, containers, ret>>
    /\ defers' = Tail(defers)
    /\ UNCHANGED <<variant, options, pc, callerDone, scope, ctxVar, password,
                   config, port, createReq, createID, errCnr, connStr, sleeps,
                   shutdownRet>>
    /\ UNCHANGED aux

\* defer cli.Close()
DeferClose ==
    /\ pc = "defers"
    /\ defers # <<>> /\ Head(defers) = "close"
    /\ defers' = Tail(defers)
    /\ UNCHANGED <<variant, options, pc, callerDone, scope, ctxVar, password,
                   config, port, createReq, createID, errCnr, connStr, sleeps,
                   ret, containers, calls, shutdownRet>>
    /\ UNCHANGED aux

\* every deferred function has run: the caller has the results
Returned ==
    /\ pc = "defers"
    /\ defers = <<>>
    /\ pc' = "returned"
    /\ UNCHANGED <<variant, options, callerDone, scope, ctxVar, password, config,
                   port, createReq, createID, errCnr, defers, connStr, sleeps,
                   ret, containers, calls, shutdownRet>>
    /\ UNCHANGED aux

----------------------------------------------------------------------------
(* Shutdown, called by the holder of a handle with the caller's context *)

\* a Shutdown that goes on to the remove after a failed stop
StopNeverAborts(e) == FALSE

\* err = cli.ContainerStop(...); if err != nil { return err }
StopAborts(e) == e # Nil

\* client.NewClientWithOpts and cli.ContainerStop(ctx, c.id, nil)
ShutdownStop ==
    /\ pc = "Shutdown"
    /\ \/ /\ shutdownRet' = "client: cannot connect to the runtime"
          /\ pc' = "shutdownDone"
          /\ UNCHANGED <<calls, containers>>
       \/ \E e \in CallErrs("ContainerStop") :
            /\ Log("ContainerStop", ret.handle.id, e)
            /\ containers' = IF e = Nil
                             THEN [containers EXCEPT ![ret.handle.id] = "exited"]
                             ELSE containers
            /\ IF StopAborts(e)
               THEN /\ shutdownRet' = e
                    /\ pc' = "shutdownDone"
               ELSE /\ pc' = "ShutdownRemove"
                    /\ UNCHANGED shutdownRet
    /\ UNCHANGED <<variant, options, callerDone, scope, ctxVar, password, config,
                   port, createReq, createID, errCnr, defers, connStr, sleeps, ret>>
    /\ UNCHANGED aux

\* cli.ContainerRemove(ctx, c.id, ...) and the return of Shutdown
ShutdownRemove ==
    /\ pc = "ShutdownRemove"
    /\ \E e \in RemoveErrs(ret.handle.id) :
        /\ Log("ContainerRemove", ret.handle.id, e)
        /\ containers' = IF e = Nil
                         THEN [containers EXCEPT ![ret.handle.id] = "absent"]
                         ELSE containers
        /\ shutdownRet' = e
    /\ pc' = "shutdownDone"
    /\ UNCHANGED <<variant, options, callerDone, scope, ctxVar, password, config,
                   port, createReq, createID, errCnr, defers, connStr, sleeps, ret>>
    /\ UNCHANGED aux

\* the caller invokes Shutdown(ctx) on the handle it received
CallShutdown ==
    /\ pc = "returned"
    /\ ret.handle # NoHandle
    /\ pc' = "Shutdown"
    /\ ctxVar' = "caller"
    /\ UNCHANGED <<variant, options, callerDone, scope, password, config, port,
                   createReq, createID, errCnr, defers, connStr, sleeps, ret,
                   containers, calls, shutdownRet>>
    /\ UNCHANGED aux

----------------------------------------------------------------------------
(* The environment *)

Running == pc \notin {"returned", "shutdownDone", "panicked"}

\* the caller cancels its context; a live timeout scope derived from it is
\* cancelled with it
CallerCancel ==
    /\ Running
    /\ ~callerDone
    /\ callerDone' = TRUE
    /\ scope' = IF scope = "live" THEN Canceled ELSE scope
    /\ UNCHANGED <<variant, options, pc, ctxVar, password, config, port,
                   createReq, createID, errCnr, defers, connStr, sleeps, ret,
                   containers, calls, shutdownRet>>
    /\ UNCHANGED aux

\* waitTimeout elapses
DeadlineExpire ==
    /\ scope = "live"
    /\ scope' = DeadlineExceeded
    /\ UNCHANGED <<variant, options, pc, callerDone, ctxVar, password, config,
                   port, createReq, createID, errCnr, defers, connStr, sleeps,
                   ret, containers, calls, shutdownRet>>
    /\ UNCHANGED aux

----------------------------------------------------------------------------
Next ==
    \/ NewClient
    \/ ImageInspect
    \/ ImagePull
    \/ Drain
    \/ RandomPassword
    \/ RandomPort
    \/ ContainerCreate
    \/ ContainerStart
    \/ HealthSelect
    \/ ContainerInspect
    \/ HealthSleep
    \/ SqlOpen
    \/ ConnSelect
    \/ Ping
    \/ ConnSleep
    \/ DeferCancel
    \/ DeferStop
    \/ DeferRemove
    \/ DeferClose
    \/ Returned
    \/ CallShutdown
    \/ ShutdownStop
    \/ ShutdownRemove
    \/ CallerCancel
    \/ DeadlineExpire

Spec == Init /\ [][Next]_vars

----------------------------------------------------------------------------
(* Vocabulary of the properties *)

\* StartPostgresContainer has fixed its results
HasReturned == pc \in {"defers", "returned", "Shutdown", "ShutdownRemove", "shutdownDone"}

HandleReturned == HasReturned /\ ret.handle # NoHandle

\* indexes of the calls StartPostgresContainer made
StartCalls == {i \in 1..Len(calls) : calls[i].by = "StartPostgresContainer"}

\* indexes of the calls Shutdown made
ShutdownCalls == {i \in 1..Len(calls) : calls[i].by = "Shutdown"}

\* indexes of the calls of StartPostgresContainer to op
CallsTo(op) == {i \in StartCalls : calls[i].op = op}

\* indexes of the inspects that reported status
Inspected(status) == {i \in CallsTo("ContainerInspect") : calls[i].res = status}

\* indexes of the polling-loop iterations that found the context done
SelectedDone == {i \in CallsTo("select") : calls[i].res = "done"}

\* indexes of the failed ContainerStart calls
StartFailed == {i \in CallsTo("ContainerStart") : calls[i].res # Nil}

\* the strings a configuration field, a password or a port can hold
Strings ==
    {"pgtest", "UTC", "disable"} \cup GenPasswords \cup Ports
        \cup {ArgAt(i) : i \in 1..(MaxOpts + 1)}

\* the value v of an environment entry "key=v"
EnvValue(key, entry) ==
    IF \E v \in Strings : entry = key \o "=" \o v
    THEN CHOOSE v \in Strings : entry = key \o "=" \o v
    ELSE Nil

\* the field an option kind sets
FieldOf(kind) ==
    CASE kind = "WithDBName" -> "DBName"
      [] kind = "WithDBUser" -> "DBUser"
      [] kind = "WithDBPassword" -> "DBPassword"
      [] kind = "WithTimeZone" -> "TimeZone"
      [] kind = "WithSSLMode" -> "SSLMode"

Fields == {"DBName", "DBUser", "DBPassword", "TimeZone", "SSLMode"}

\* positions of the options that set field f
Setters(f) == {i \in 1..Len(options) : FieldOf(options[i].kind) = f}

Max(S) == CHOOSE m \in S : \A x \in S : x <= m

\* c.ConnectionString()
ConnectionString(h) == h.connStr

----------------------------------------------------------------------------
(* Properties *)

\* C1: a handle is returned only with a nil error, and only after an
\* inspect of the created container reported "healthy" and, later, a ping
\* against the handle's connection string succeeded.
C1_HandleOnlyWhenReady ==
    HandleReturned =>
        /\ ret.err = Nil
        /\ ret.handle.id = createID
        /\ containers[createID] = "running" \/ ShutdownCalls # {}
        /\ \E i \in Inspected("healthy") :
             /\ calls[i].target = ret.handle.id
             /\ \E j \in CallsTo("Ping") :
                  /\ i < j
                  /\ calls[j].res = Nil
                  /\ calls[j].target = ConnectionString(ret.handle)

C1_Witness ==
    /\ pc = "returned"
    /\ ret.handle # NoHandle
    /\ \E i \in Inspected("starting") : TRUE
    /\ \E j \in CallsTo("Ping") : calls[j].res # Nil

\* the environment assumption of C2: the runtime failed a stop or a remove
\* only when the context passed to that call was already done
OnlyContextFailures ==
    \A i \in CallsTo("ContainerStop") \cup CallsTo("ContainerRemove") :
        calls[i].res # Nil => calls[i].ctx # Nil

\* C2: with options, whenever an error is returned after ContainerCreate
\* succeeded, the created container no longer exists on return, and it
\* was stopped before it was removed if it had been started (under the
\* assumption that stop and remove fail only on a done context).
C2_FailureLeavesNoContainer ==
    (/\ variant = "options"
     /\ pc = "returned"
     /\ ret.err # Nil
     /\ createID # Nil
     /\ OnlyContextFailures)
    => /\ containers[createID] = "absent"
       /\ (\E k \in CallsTo("ContainerStart") : calls[k].res = Nil)
            => \E i \in CallsTo("ContainerStop"), j \in CallsTo("ContainerRemove") :
                  i < j /\ calls[i].res = Nil /\ calls[j].res = Nil

\* C3: Shutdown calls ContainerStop on the handle's id first; a remove is
\* attempted only after a successful stop; after a failed stop no remove
\* is attempted and the stop error is what Shutdown returns.
C3_ShutdownStopBeforeRemove ==
    /\ \A j \in ShutdownCalls :
         /\ calls[j].op \in {"ContainerStop", "ContainerRemove"}
         /\ calls[j].target = ret.handle.id
         /\ calls[j].op = "ContainerRemove"
              => \E i \in ShutdownCalls :
                   i < j /\ calls[i].op = "ContainerStop" /\ calls[i].res = Nil
    /\ \A i \in ShutdownCalls :
         (calls[i].op = "ContainerStop" /\ calls[i].res # Nil)
           => /\ pc = "shutdownDone"
              /\ shutdownRet = calls[i].res
              /\ \A j \in ShutdownCalls : calls[j].op # "ContainerRemove"

C3_Witness ==
    /\ pc = "shutdownDone"
    /\ shutdownRet # Nil
    /\ \E i \in ShutdownCalls : calls[i].op = "ContainerStop" /\ calls[i].res # Nil

\* C4: no probe connection is opened and no ping is made before an inspect
\* reported "healthy", and no inspect is made once connectivity polling
\* has begun.
C4_HealthBeforeConnectivity ==
    \A j \in CallsTo("sql.Open") \cup CallsTo("Ping") :
        /\ \E i \in Inspected("healthy") : i < j
        /\ \A i \in CallsTo("ContainerInspect") : i < j
        /\ \A i \in CallsTo("select") : calls[i].target = "health" => i < j

C4_Witness ==
    /\ \E i \in Inspected("starting") : TRUE
    /\ \E j \in CallsTo("Ping") : calls[j].res # Nil
    /\ pc = "connSelect"

\* C5: an inspect that reports "unhealthy" ends startup: no inspect, no
\* sleep, no loop iteration, no probe connection and no ping follows it,
\* and the call returns "container unhealthy" with no handle.
C5_UnhealthyIsTerminal ==
    \A i \in Inspected("unhealthy") :
        /\ HasReturned
        /\ ret.err = "container unhealthy"
        /\ ret.handle = NoHandle
        /\ \A j \in StartCalls :
             j > i => calls[j].op \in {"cancel", "ContainerStop", "ContainerRemove"}
        /\ CallsTo("Ping") = {} /\ CallsTo("sql.Open") = {}

C5_Witness ==
    /\ pc = "returned"
    /\ \E i \in Inspected("starting") : TRUE
    /\ \E i \in Inspected("unhealthy") : TRUE

\* C6: when an iteration of either polling loop begins with the startup
\* scope done, the call returns the context's error (deadline exceeded or
\* canceled) and no handle; a handle is never returned by an invocation
\* that observed the scope done.
C6_DoneScopeIsAnError ==
    \A i \in SelectedDone :
        /\ HasReturned
        /\ ret.err \in {DeadlineExceeded, Canceled}
        /\ ret.err = calls[i].ctx
        /\ ret.handle = NoHandle

C6_Witness ==
    /\ pc = "returned"
    /\ ret.err = DeadlineExceeded
    /\ \E i \in SelectedDone : calls[i].target = "connect"

\* C7: after a failed ContainerStart the invocation makes exactly one more
\* runtime call, a ContainerRemove of the created id: no stop, no polling;
\* it returns the start error and no handle.
C7_StartFailureRemovesOnly ==
    \A i \in StartFailed :
        /\ HasReturned
        /\ ret.err = calls[i].res
        /\ ret.handle = NoHandle
        /\ Len(calls) <= i + 1
        /\ pc = "returned"
             => /\ Len(calls) = i + 1
                /\ calls[i + 1].op = "ContainerRemove"
                /\ calls[i + 1].target = createID

C7_Witness ==
    /\ pc = "returned"
    /\ StartFailed # {}
    /\ containers[createID] = "absent"

\* C8: with options, the password in the returned connection string, and
\* the one stored in the handle, is the POSTGRES_PASSWORD value of the
\* create request.
C8_ConnStrPasswordIsCreatePassword ==
    (HandleReturned /\ variant = "options") =>
        LET pw == EnvValue("POSTGRES_PASSWORD", createReq.env[2])
        IN /\ ret.handle.password = pw
           /\ \E u \in Strings, d \in Strings, m \in Strings :
                ConnectionString(ret.handle)
                  = "postgres://" \o u \o ":" \o pw \o "@127.0.0.1:"
                      \o createReq.hostPort \o "/" \o d \o "?sslmode=" \o m

\* C9: with options, the returned connection string is
\* postgres://U:P@127.0.0.1:PORT/D?sslmode=S with U and D the POSTGRES_USER
\* and POSTGRES_DB of the create request (the final configuration's DBUser
\* and DBName), S the final SSLMode and PORT the host port of the create
\* request; with no options it is
\* postgres://pgtest:<generated password>@127.0.0.1:<port>/pgtest?sslmode=disable;
\* ConnectionString() keeps returning that string.
C9_ConnStrForm ==
    (HandleReturned /\ variant = "options") =>
        LET u == EnvValue("POSTGRES_USER", createReq.env[3])
            d == EnvValue("POSTGRES_DB", createReq.env[1])
        IN /\ u = config.DBUser /\ d = config.DBName
           /\ \E pw \in Strings :
                ConnectionString(ret.handle)
                  = "postgres://" \o u \o ":" \o pw \o "@127.0.0.1:"
                      \o createReq.hostPort \o "/" \o d \o "?sslmode=" \o config.SSLMode
           /\ options = <<>>
                => ConnectionString(ret.handle)
                     = "postgres://pgtest:" \o password \o "@127.0.0.1:" \o port
                         \o "/pgtest?sslmode=disable"
           /\ ConnectionString(ret.handle) = connStr

C9_Witness ==
    /\ pc = "shutdownDone"
    /\ variant = "options"
    /\ Len(options) = 2
    /\ {options[1].kind, options[2].kind} = {"WithDBUser", "WithSSLMode"}

\* C10: once the options are applied, every field of the configuration
\* holds the argument of the last option that sets that field, or its
\* default if no option sets it.
C10_LastOptionWins ==
    (variant = "options" /\ password # Nil) =>
        \A f \in Fields :
            config[f] = IF Setters(f) # {}
                        THEN options[Max(Setters(f))].arg
                        ELSE (CASE f = "DBName" -> "pgtest"
                                [] f = "DBUser" -> "pgtest"
                                [] f = "DBPassword" -> password
                                [] f = "TimeZone" -> "UTC"
                                [] f = "SSLMode" -> "disable")

C10_Witness ==
    /\ variant = "options"
    /\ password # Nil
    /\ Len(options) = 2
    /\ options[1].kind = options[2].kind
    /\ config[FieldOf(options[2].kind)] = options[2].arg

\* C11: every return is either a handle with a nil error or no handle
\* with a non-nil error.
C11_HandleXorError ==
    HasReturned => ((ret.handle # NoHandle) <=> (ret.err = Nil))

C11_Witness ==
    /\ pc = "returned"
    /\ ret.err # Nil
    /\ ret.handle = NoHandle
    /\ \E j \in CallsTo("Ping") : calls[j].res # Nil

\* the calls of the deferred functions
RollbackOps == {"cancel", "ContainerStop", "ContainerRemove"}

\* index of the last call made before the deferred functions ran
LastStep == Max({i \in StartCalls : calls[i].op \notin RollbackOps})

\* the error of the step that made startup fail, read off the history
PrimaryErr ==
    LET c == calls[LastStep]
    IN CASE c.op = "select" -> c.ctx
         [] c.op = "ContainerInspect" /\ c.res = "unhealthy" -> "container unhealthy"
         [] c.op = "ContainerInspect" /\ variant = "options" ->
                "error inspecting container: " \o c.res
         [] OTHER -> c.res

\* C12: when a compensating stop or remove fails, the call still returns
\* the error of the step that failed first, and no handle.
C12_RollbackFailureKeepsError ==
    \A j \in CallsTo("ContainerStop") \cup CallsTo("ContainerRemove") :
        calls[j].res # Nil
          => /\ HasReturned
             /\ ret.err # Nil
             /\ ret.err = PrimaryErr
             /\ ret.handle = NoHandle

C12_Witness ==
    /\ pc = "returned"
    /\ \E i \in CallsTo("ContainerStop"), j \in CallsTo("ContainerRemove") :
          calls[i].res # Nil /\ calls[j].res # Nil
    /\ ret.err = "container unhealthy"

\* C13: every inspect and every ping is directly preceded by the select
\* of its own iteration, which found the context live; every sleep is
\* followed by that select; once a select finds the context done no
\* inspect, ping, sleep or select follows.
C13_CheckedAtTopOfEveryIteration ==
    /\ \A j \in CallsTo("ContainerInspect") :
         j > 1 /\ calls[j - 1] = [calls[j - 1] EXCEPT !.op = "select",
                                      !.target = "health", !.res = "default"]
    /\ \A j \in CallsTo("Ping") :
         j > 1 /\ calls[j - 1] = [calls[j - 1] EXCEPT !.op = "select",
                                      !.target = "connect", !.res = "default"]
    /\ \A i \in CallsTo("time.Sleep") :
         i < Len(calls) => /\ calls[i + 1].op = "select"
                           /\ calls[i + 1].target = calls[i].target
    /\ \A i \in SelectedDone :
         /\ HasReturned
         /\ \A j \in StartCalls : j > i => calls[j].op \in RollbackOps

C13_Witness ==
    /\ pc = "returned"
    /\ \E i \in SelectedDone : calls[i].target = "health"
    /\ \E i \in Inspected("starting") : TRUE

\* the calls of image resolution
ResolveOps == {"ImageInspect", "ImagePull", "io.Copy"}

\* C14: the image is inspected first; it is pulled, at most once, only
\* after the inspect failed with not-found; any other inspect error, a
\* pull error and a drain error are returned with no further call; after a
\* pull every later step comes after the stream was drained.
C14_InspectFirstPullOnNotFound ==
    /\ Len(calls) >= 1 => calls[1].op = "ImageInspect"
    /\ Cardinality(CallsTo("ImageInspect")) <= 1
    /\ Cardinality(CallsTo("ImagePull")) <= 1
    /\ \A j \in CallsTo("ImagePull") : j = 2 /\ calls[1].res = "No such image"
    /\ \A i \in CallsTo("ImageInspect") :
         calls[i].res \notin {Nil, "No such image"}
           => /\ HasReturned /\ ret = [handle |-> NoHandle, err |-> calls[i].res]
              /\ Len(calls) = i
    /\ \A i \in CallsTo("ImagePull") \cup CallsTo("io.Copy") :
         calls[i].res # Nil
           => /\ HasReturned /\ ret = [handle |-> NoHandle, err |-> calls[i].res]
              /\ Len(calls) = i
    /\ \A j \in StartCalls :
         (calls[j].op \notin ResolveOps /\ CallsTo("ImagePull") # {})
           => \E i \in CallsTo("io.Copy") : i < j /\ calls[i].res = Nil

C14_Witness ==
    /\ CallsTo("ImagePull") # {}
    /\ \E i \in CallsTo("io.Copy") : calls[i].res = Nil
    /\ \E j \in CallsTo("ContainerCreate") : calls[j].res = Nil

\* image resolution failed
ResolutionFailed ==
    \E i \in StartCalls :
        /\ calls[i].op \in ResolveOps
        /\ calls[i].res # Nil
        /\ ~(calls[i].op = "ImageInspect" /\ calls[i].res = "No such image")

\* image resolution succeeded at index i of the history
ResolvedAt(i) ==
    /\ calls[i].op \in {"ImageInspect", "io.Copy"}
    /\ calls[i].res = Nil

\* C15: at most one ContainerCreate is issued, after image resolution,
\* password generation and port allocation succeeded in that order; after
\* a failed resolution nothing is generated, allocated or issued; every
\* start, inspect, stop and remove targets the id that create returned.
C15_OneCreateAfterAllocation ==
    /\ Cardinality(CallsTo("ContainerCreate")) <= 1
    /\ \A j \in CallsTo("ContainerCreate") :
         \E r \in StartCalls, a \in CallsTo("randomPassword"), b \in CallsTo("randomPort") :
            /\ r < a /\ a < b /\ b < j
            /\ ResolvedAt(r) /\ calls[a].res = Nil /\ calls[b].res = Nil
    /\ ResolutionFailed
         => /\ password = Nil /\ port = Nil
            /\ \A j \in StartCalls : calls[j].op \in ResolveOps
    /\ \A j \in 1..Len(calls) :
         calls[j].op \in {"ContainerStart", "ContainerInspect", "ContainerStop", "ContainerRemove"}
           => \E c \in CallsTo("ContainerCreate") :
                 c < j /\ calls[c].res = Nil /\ calls[j].target = calls[c].target

C15_Witness ==
    /\ pc = "shutdownDone"
    /\ CallsTo("ImagePull") # {}
    /\ \E j \in ShutdownCalls : calls[j].op = "ContainerRemove"

\* C18: the configured TimeZone is the TZ variable of the create request
\* and is also the timezone query parameter of the returned connection
\* string.
C18_TimeZoneInEnvAndConnStr ==
    (HandleReturned /\ variant = "options") =>
        /\ createReq.env[4] = "TZ=" \o config.TimeZone
        /\ \E g \in Strings :
             LET base == "postgres://" \o config.DBUser \o ":" \o g \o "@127.0.0.1:"
                            \o port \o "/" \o config.DBName
             IN ConnectionString(ret.handle) \in
                  { base \o "?sslmode=" \o config.SSLMode \o "&timezone=" \o config.TimeZone,
                    base \o "?timezone=" \o config.TimeZone \o "&sslmode=" \o config.SSLMode }

----------------------------------------------------------------------------
(* randomPassword, step by step *)

\* const passwordLength = 32
PasswordLength == 32

\* var passwordLetters = []rune("abc...xyzABC...XYZ")
PasswordLetters ==
    << "a", "b", "c", "d", "e", "f", "g", "h", "i", "j", "k", "l", "m",
       "n", "o", "p", "q", "r", "s", "t", "u", "v", "w", "x", "y", "z",
       "A", "B", "C", "D", "E", "F", "G", "H", "I", "J", "K", "L", "M",
       "N", "O", "P", "Q", "R", "S", "T", "U", "V", "W", "X", "Y", "Z" >>

\* the zero rune of make([]rune, passwordLength)
ZeroRune == "\\x00"

\* big.NewInt(int64(len(passwordLetters))): the draws are in [0, RandMax)
RandMax == Len(PasswordLetters)

\* the streams of the random source: the k-th draw of a stream is
\* (start + step * k) modulo the bound of the draw
RandStarts == 0..(Len(PasswordLetters) - 1)
RandSteps == {0, 1, 5}

\* n of the draw at position k: rand.Int(rand.Reader, max)
RandInt(k) == (randpw.start + randpw.step * k) % RandMax

\* return "", err with the buffer filled up to position k
PwFailPartial(b, k) == SubSeq(b, 1, k)

\* return "", err
PwFail(b, k) == <<>>

\* the entry of randomPassword: b := make([]rune, passwordLength); the
\* random source fails at position failAt (never, if failAt is the length)
PwInit ==
    randpw \in [pc : {"loop"}, i : {0},
                b : {[k \in 1..PasswordLength |-> ZeroRune]},
                start : RandStarts, step : RandSteps,
                failAt : 0..PasswordLength,
                out : {<<>>}, err : {Nil}]

\* one iteration: n, err := rand.Int(...); b[i] = passwordLetters[n.Int64()]
PwDraw ==
    /\ randpw.pc = "loop"
    /\ randpw.i < PasswordLength
    /\ randpw.i # randpw.failAt
    /\ randpw' = [randpw EXCEPT
                    !.b = [@ EXCEPT ![randpw.i + 1] = PasswordLetters[RandInt(randpw.i) + 1]],
                    !.i = @ + 1]
    /\ UNCHANGED <<startVars, polling, conc, mig, scn>>

\* one iteration in which rand.Int fails: if err != nil { return "", err }
PwRandErr ==
    /\ randpw.pc = "loop"
    /\ randpw.i < PasswordLength
    /\ randpw.i = randpw.failAt
    /\ randpw' = [randpw EXCEPT !.pc = "done",
                                !.out = PwFail(randpw.b, randpw.i),
                                !.err = "rand: entropy source failed"]
    /\ UNCHANGED <<startVars, polling, conc, mig, scn>>

\* return string(b), nil: the characters of the returned string
PwReturn ==
    /\ randpw.pc = "loop"
    /\ randpw.i = PasswordLength
    /\ randpw' = [randpw EXCEPT !.pc = "done", !.out = randpw.b]
    /\ UNCHANGED <<startVars, polling, conc, mig, scn>>

\* the variables of StartPostgresContainer while another function is modelled
StartIdle == StartInit /\ variant = "plain"

InitPassword ==
    /\ StartIdle
    /\ PwInit
    /\ conc = Idle /\ mig = Idle /\ scn = Idle /\ polling = Idle

NextPassword ==
    \/ PwDraw
    \/ PwRandErr
    \/ PwReturn

SpecPassword == InitPassword /\ [][NextPassword]_vars

LowerCase == {"a", "b", "c", "d", "e", "f", "g", "h", "i", "j", "k", "l", "m",
              "n", "o", "p", "q", "r", "s", "t", "u", "v", "w", "x", "y", "z"}
UpperCase == {"A", "B", "C", "D", "E", "F", "G", "H", "I", "J", "K", "L", "M",
              "N", "O", "P", "Q", "R", "S", "T", "U", "V", "W", "X", "Y", "Z"}

\* C16: a password returned without error has exactly 32 characters, each
\* one of the 52 letters a-z, A-Z; when the random source fails, at any
\* position, the result is the empty string and the error.
C16_PasswordIs32Letters ==
    randpw.pc = "done" =>
        IF randpw.err = Nil
        THEN /\ Len(randpw.out) = 32
             /\ \A k \in 1..32 : randpw.out[k] \in LowerCase \cup UpperCase
        ELSE /\ randpw.out = <<>>
             /\ randpw.err = "rand: entropy source failed"

C16_Witness ==
    /\ randpw.pc = "done"
    /\ randpw.err = Nil
    /\ randpw.out[1] = "Z" /\ randpw.out[2] = "a"

----------------------------------------------------------------------------------------------------------------------------------------
(* Two concurrent invocations of StartPostgresContainer (with options,     *)
(* none given), each from randomPort on and each followed by the Shutdown  *)
(* of the handle it returned: every step of the main specification, per    *)
(* invocation, over one runtime and one host                               *)

Procs == {1, 2}

\* the most sleeps one invocation makes in its two polling loops
MaxConcSleeps == 1

\* the ports the operating system hands out to a listener on port 0
OSPorts == {"49153", "49154"}

\* the ids the runtime hands out, never twice
RuntimeIds == {"c1", "c2"}

\* a call of invocation p: what was called, on which container, with which
\* host port in hand
ConcEntry(p, op, target, hostPort) ==
    [p |-> p, op |-> op, target |-> target, port |-> hostPort]

\* the host ports held by a listener or by a running container
PortsInUse ==
    conc.listening \cup {conc.cont[i].port : i \in {j \in RuntimeIds : conc.cont[j].state = "running"}}

\* the calls invocation p made to op
ConcCalls(p, op) == {e \in conc.proc[p].calls : e.op = op}

\* ctx.Err() of the variable ctx of invocation p: the caller's context
\* until context.WithTimeout replaces it
ConcCtxErr(p) ==
    LET s == conc.proc[p]
    IN IF s.scope = "unset" THEN (IF s.callerDone THEN Canceled ELSE Nil)
       ELSE IF s.scope = "live" THEN Nil ELSE s.scope

\* ctx.Err() of the context the caller passes to Shutdown
ConcCallerErr(p) == IF conc.proc[p].callerDone THEN Canceled ELSE Nil

\* outcomes of a context-aware call made with a context whose error is e
ConcCallErrs(e, op) == IF e # Nil THEN {e} ELSE {Nil, DaemonErr(op)}

\* outcomes of ContainerRemove on i without Force
ConcRemoveErrs(e, i) ==
    IF e # Nil THEN {e}
    ELSE IF conc.cont[i].state = "running"
         THEN {"ContainerRemove: cannot remove a running container"}
         ELSE {Nil, DaemonErr("ContainerRemove")}

\* an id looked up among the containers of the runtime
ConcTargetShared(p) == CHOOSE i \in RuntimeIds : conc.cont[i].state # "absent"

\* createResp.ID: createResp is a local variable of the invocation
ConcTarget(p) == conc.proc[p].id

\* invocation p adds a call to the calls it has made
Logged(p, op, target) ==
    conc.proc[p].calls \cup {ConcEntry(p, op, target, conc.proc[p].port)}

\* return nil, e / return handle, nil of invocation p, s its state so far
ConcReturn(s, h, e) == [s EXCEPT !.pc = "defers", !.handle = h, !.ret = e]

ConcInit ==
    conc = [proc |-> [p \in Procs |->
                        [pc |-> "listen", callerDone |-> FALSE, scope |-> "unset",
                         port |-> Nil, id |-> Nil, errCnr |-> Nil, defers |-> <<"close">>,
                         sleeps |-> 0, handle |-> Nil, ret |-> Nil, calls |-> {},
                         shutdownRet |-> Nil]],
            listening |-> {},
            cont |-> [i \in RuntimeIds |-> [state |-> "absent", port |-> Nil]],
            used |-> {},
            ports |-> <<>>]

\* l, err := net.Listen("tcp", "127.0.0.1:0"): the system picks a port that
\* nothing holds
CListen(p) ==
    /\ conc.proc[p].pc = "listen"
    /\ \/ \E q \in OSPorts \ PortsInUse :
            conc' = [conc EXCEPT !.proc[p].pc = "close", !.proc[p].port = q,
                                 !.listening = @ \cup {q},
                                 !.ports = Append(@, ConcEntry(p, "net.Listen", Nil, q))]
       \/ conc' = [conc EXCEPT !.proc[p] =
                      [ConcReturn(@, Nil, "listen tcp 127.0.0.1:0: error") EXCEPT
                          !.errCnr = "listen tcp 127.0.0.1:0: error"]]
    /\ UNCHANGED <<startVars, polling, randpw, mig, scn>>

\* defer l.Close(); _, port, err := net.SplitHostPort(...); return port, err:
\* the listener is closed when randomPort returns
CClose(p) ==
    /\ conc.proc[p].pc = "close"
    /\ conc' = [conc EXCEPT !.proc[p].pc = "create",
                            !.listening = @ \ {conc.proc[p].port},
                            !.ports = Append(@, ConcEntry(p, "l.Close", Nil, conc.proc[p].port))]
    /\ UNCHANGED <<startVars, polling, randpw, mig, scn>>

\* cli.ContainerCreate(..., HostPort: port): the runtime returns a new id;
\* on success the remove closure is deferred
CCreate(p) ==
    /\ conc.proc[p].pc = "create"
    /\ \/ /\ ConcCtxErr(p) = Nil
          /\ \E i \in RuntimeIds \ conc.used :
               conc' = [conc EXCEPT
                          !.proc[p].pc = "start", !.proc[p].id = i,
                          !.proc[p].errCnr = Nil,
                          !.proc[p].defers = PushDefer("remove", @),
                          !.proc[p].calls = Logged(p, "ContainerCreate", i),
                          !.cont[i] = [state |-> "created", port |-> conc.proc[p].port],
                          !.used = @ \cup {i}]
       \/ \E e \in ConcCallErrs(ConcCtxErr(p), "ContainerCreate") \ {Nil} :
            conc' = [conc EXCEPT !.proc[p] =
                       [ConcReturn(@, Nil, e) EXCEPT
                           !.errCnr = e,
                           !.calls = Logged(p, "ContainerCreate", Nil)]]
    /\ UNCHANGED <<startVars, polling, randpw, mig, scn>>

\* cli.ContainerStart(ctx, createResp.ID, ...): the runtime binds the host
\* port and refuses when the port is held; on success the stop closure is
\* deferred, ctx becomes the timeout scope and cancel is deferred
CStart(p) ==
    /\ conc.proc[p].pc = "start"
    /\ LET i == ConcTarget(p)
           es == IF ConcCtxErr(p) # Nil THEN {ConcCtxErr(p)}
                 ELSE IF conc.cont[i].port \in PortsInUse
                      THEN {"ContainerStart: port is already allocated"}
                      ELSE {Nil, DaemonErr("ContainerStart")}
       IN \E e \in es :
            IF e = Nil
            THEN conc' = [conc EXCEPT
                            !.proc[p].pc = "healthSelect",
                            !.proc[p].errCnr = Nil,
                            !.proc[p].defers = PushDefer("cancel", PushDefer("stop", @)),
                            !.proc[p].scope = IF conc.proc[p].callerDone
                                              THEN Canceled ELSE "live",
                            !.proc[p].calls = Logged(p, "ContainerStart", i),
                            !.cont[i].state = "running"]
            ELSE conc' = [conc EXCEPT !.proc[p] =
                            [ConcReturn(@, Nil, e) EXCEPT
                                !.errCnr = e,
                                !.calls = Logged(p, "ContainerStart", i)]]
    /\ UNCHANGED <<startVars, polling, randpw, mig, scn>>

\* the select of waitUntilHealthy
CHealthSelect(p) ==
    /\ conc.proc[p].pc = "healthSelect"
    /\ conc' = IF ConcCtxErr(p) # Nil
               THEN [conc EXCEPT !.proc[p] =
                       [ConcReturn(@, Nil, ConcCtxErr(p)) EXCEPT !.errCnr = ConcCtxErr(p)]]
               ELSE [conc EXCEPT !.proc[p].pc = "inspect"]
    /\ UNCHANGED <<startVars, polling, randpw, mig, scn>>

\* cli.ContainerInspect(ctx, containerID) and the switch on the status
CInspect(p) ==
    /\ conc.proc[p].pc = "inspect"
    /\ LET i == ConcTarget(p)
       IN \/ \E e \in ConcCallErrs(ConcCtxErr(p), "ContainerInspect") \ {Nil} :
               conc' = [conc EXCEPT !.proc[p] =
                          [ConcReturn(@, Nil, InspectErr("options", e)) EXCEPT
                              !.errCnr = InspectErr("options", e),
                              !.calls = Logged(p, "ContainerInspect", i)]]
          \/ /\ ConcCtxErr(p) = Nil
             /\ \E status \in {"healthy", "unhealthy"}
                      \cup (IF conc.proc[p].sleeps < MaxConcSleeps
                            THEN {"starting"} ELSE {}) :
                  conc' =
                    CASE HealthVerdict(status) = "fail" ->
                           [conc EXCEPT !.proc[p] =
                              [ConcReturn(@, Nil, "container unhealthy") EXCEPT
                                  !.errCnr = "container unhealthy",
                                  !.calls = Logged(p, "ContainerInspect", i)]]
                      [] HealthVerdict(status) = "advance" ->
                           [conc EXCEPT !.proc[p].pc = "sqlOpen",
                                        !.proc[p].errCnr = Nil,
                                        !.proc[p].calls =
                                            Logged(p, "ContainerInspect", i)]
                      [] OTHER ->
                           [conc EXCEPT !.proc[p].pc = "healthSleep",
                                        !.proc[p].calls =
                                            Logged(p, "ContainerInspect", i)]
    /\ UNCHANGED <<startVars, polling, randpw, mig, scn>>

\* time.Sleep(waitInterval) of the health loop
CHealthSleep(p) ==
    /\ conc.proc[p].pc = "healthSleep"
    /\ conc' = [conc EXCEPT !.proc[p].pc = "healthSelect", !.proc[p].sleeps = @ + 1]
    /\ UNCHANGED <<startVars, polling, randpw, mig, scn>>

\* db, err := sql.Open("pgx", connStr)
CSqlOpen(p) ==
    /\ conc.proc[p].pc = "sqlOpen"
    /\ \E e \in {Nil, "sql.Open: cannot parse connection string"} :
         conc' = IF e = Nil
                 THEN [conc EXCEPT !.proc[p].pc = "connSelect"]
                 ELSE [conc EXCEPT !.proc[p] = [ConcReturn(@, Nil, e) EXCEPT !.errCnr = e]]
    /\ UNCHANGED <<startVars, polling, randpw, mig, scn>>

\* the select of waitUntilConnectable
CConnSelect(p) ==
    /\ conc.proc[p].pc = "connSelect"
    /\ conc' = IF ConcCtxErr(p) # Nil
               THEN [conc EXCEPT !.proc[p] =
                       [ConcReturn(@, Nil, ConcCtxErr(p)) EXCEPT !.errCnr = ConcCtxErr(p)]]
               ELSE [conc EXCEPT !.proc[p].pc = "ping"]
    /\ UNCHANGED <<startVars, polling, randpw, mig, scn>>

\* db.PingContext(ctx): nil ends the loop and the handle is returned, any
\* error sleeps
CPing(p) ==
    /\ conc.proc[p].pc = "ping"
    /\ \E e \in (IF ConcCtxErr(p) # Nil THEN {ConcCtxErr(p)}
                 ELSE {Nil} \cup (IF conc.proc[p].sleeps < MaxConcSleeps
                                  THEN {"ping: connection refused"} ELSE {})) :
         conc' = IF PingReady(e)
                 THEN [conc EXCEPT !.proc[p] =
                         [ConcReturn(@, conc.proc[p].id, Nil) EXCEPT
                             !.errCnr = Nil,
                             !.calls = Logged(p, "Ping", Nil)]]
                 ELSE [conc EXCEPT !.proc[p].pc = "connSleep",
                                   !.proc[p].calls = Logged(p, "Ping", Nil)]
    /\ UNCHANGED <<startVars, polling, randpw, mig, scn>>

\* time.Sleep(waitInterval) of the ping loop
CConnSleep(p) ==
    /\ conc.proc[p].pc = "connSleep"
    /\ conc' = [conc EXCEPT !.proc[p].pc = "connSelect", !.proc[p].sleeps = @ + 1]
    /\ UNCHANGED <<startVars, polling, randpw, mig, scn>>

\* defer cancel()
CDeferCancel(p) ==
    /\ conc.proc[p].pc = "defers"
    /\ conc.proc[p].defers # <<>> /\ Head(conc.proc[p].defers) = "cancel"
    /\ conc' = [conc EXCEPT !.proc[p].defers = Tail(@),
                            !.proc[p].scope = IF @ = "live" THEN Canceled ELSE @,
                            !.proc[p].calls = Logged(p, "cancel", "scope")]
    /\ UNCHANGED <<startVars, polling, randpw, mig, scn>>

\* the deferred cli.ContainerStop(ctx, createResp.ID, nil), if errCnr != nil
CRollbackStop(p) ==
    /\ conc.proc[p].pc = "defers"
    /\ conc.proc[p].defers # <<>> /\ Head(conc.proc[p].defers) = "stop"
    /\ IF conc.proc[p].errCnr # Nil
       THEN LET i == ConcTarget(p)
            IN \E e \in ConcCallErrs(ConcCtxErr(p), "ContainerStop") :
                 conc' = [conc EXCEPT
                            !.proc[p].defers = Tail(@),
                            !.proc[p].calls = Logged(p, "ContainerStop", i),
                            !.cont[i].state = IF e = Nil THEN "exited" ELSE @]
       ELSE conc' = [conc EXCEPT !.proc[p].defers = Tail(@)]
    /\ UNCHANGED <<startVars, polling, randpw, mig, scn>>

\* the deferred cli.ContainerRemove(ctx, createResp.ID, ...), if errCnr != nil
CRollbackRemove(p) ==
    /\ conc.proc[p].pc = "defers"
    /\ conc.proc[p].defers # <<>> /\ Head(conc.proc[p].defers) = "remove"
    /\ IF conc.proc[p].errCnr # Nil
       THEN LET i == ConcTarget(p)
            IN \E e \in ConcRemoveErrs(ConcCtxErr(p), i) :
                 conc' = [conc EXCEPT
                            !.proc[p].defers = Tail(@),
                            !.proc[p].calls = Logged(p, "ContainerRemove", i),
                            !.cont[i].state = IF e = Nil THEN "absent" ELSE @]
       ELSE conc' = [conc EXCEPT !.proc[p].defers = Tail(@)]
    /\ UNCHANGED <<startVars, polling, randpw, mig, scn>>

\* defer cli.Close()
CDeferClose(p) ==
    /\ conc.proc[p].pc = "defers"
    /\ conc.proc[p].defers # <<>> /\ Head(conc.proc[p].defers) = "close"
    /\ conc' = [conc EXCEPT !.proc[p].defers = Tail(@)]
    /\ UNCHANGED <<startVars, polling, randpw, mig, scn>>

\* every deferred function has run: the caller has the results
CReturned(p) ==
    /\ conc.proc[p].pc = "defers"
    /\ conc.proc[p].defers = <<>>
    /\ conc' = [conc EXCEPT !.proc[p].pc = "returned"]
    /\ UNCHANGED <<startVars, polling, randpw, mig, scn>>

\* Shutdown(ctx) on the returned handle: the client and
\* cli.ContainerStop(ctx, c.id, nil)
CShutdownStop(p) ==
    /\ conc.proc[p].pc = "returned"
    /\ conc.proc[p].handle # Nil
    /\ LET i == conc.proc[p].handle
       IN \/ conc' = [conc EXCEPT
                        !.proc[p].pc = "shutdownDone",
                        !.proc[p].shutdownRet = "client: cannot connect to the runtime"]
          \/ \E e \in ConcCallErrs(ConcCallerErr(p), "ContainerStop") :
               conc' = [conc EXCEPT
                          !.proc[p].pc = IF StopAborts(e) THEN "shutdownDone"
                                         ELSE "shutdownRemove",
                          !.proc[p].shutdownRet = e,
                          !.proc[p].calls = Logged(p, "Shutdown.ContainerStop", i),
                          !.cont[i].state = IF e = Nil THEN "exited" ELSE @]
    /\ UNCHANGED <<startVars, polling, randpw, mig, scn>>

\* cli.ContainerRemove(ctx, c.id, ...) of Shutdown
CShutdownRemove(p) ==
    /\ conc.proc[p].pc = "shutdownRemove"
    /\ LET i == conc.proc[p].handle
       IN \E e \in ConcRemoveErrs(ConcCallerErr(p), i) :
            conc' = [conc EXCEPT
                       !.proc[p].pc = "shutdownDone",
                       !.proc[p].shutdownRet = e,
                       !.proc[p].calls = Logged(p, "Shutdown.ContainerRemove", i),
                       !.cont[i].state = IF e = Nil THEN "absent" ELSE @]
    /\ UNCHANGED <<startVars, polling, randpw, mig, scn>>

\* the caller of invocation p cancels its context; a live timeout scope
\* derived from it is cancelled with it
CCallerCancel(p) ==
    /\ conc.proc[p].pc \notin {"returned", "shutdownDone"}
    /\ ~conc.proc[p].callerDone
    /\ conc' = [conc EXCEPT !.proc[p].callerDone = TRUE,
                            !.proc[p].scope = IF @ = "live" THEN Canceled ELSE @]
    /\ UNCHANGED <<startVars, polling, randpw, mig, scn>>

\* waitTimeout of invocation p elapses
CDeadline(p) ==
    /\ conc.proc[p].scope = "live"
    /\ conc' = [conc EXCEPT !.proc[p].scope = DeadlineExceeded]
    /\ UNCHANGED <<startVars, polling, randpw, mig, scn>>

InitConcurrent ==
    /\ StartIdle
    /\ ConcInit
    /\ randpw = Idle /\ mig = Idle /\ scn = Idle /\ polling = Idle

NextConcurrent ==
    \E p \in Procs :
        \/ CListen(p)
        \/ CClose(p)
        \/ CCreate(p)
        \/ CStart(p)
        \/ CHealthSelect(p)
        \/ CInspect(p)
        \/ CHealthSleep(p)
        \/ CSqlOpen(p)
        \/ CConnSelect(p)
        \/ CPing(p)
        \/ CConnSleep(p)
        \/ CDeferCancel(p)
        \/ CRollbackStop(p)
        \/ CRollbackRemove(p)
        \/ CDeferClose(p)
        \/ CReturned(p)
        \/ CShutdownStop(p)
        \/ CShutdownRemove(p)
        \/ CCallerCancel(p)
        \/ CDeadline(p)

SpecConcurrent == InitConcurrent /\ [][NextConcurrent]_vars

\* the runtime calls of StartPostgresContainer that take a container id
OnContainer == {"ContainerStart", "ContainerInspect", "ContainerStop", "ContainerRemove"}

\* every runtime call of an invocation targets the id its own create returned
OwnContainerOnly ==
    \A p \in Procs : \A e \in conc.proc[p].calls :
        e.op \in OnContainer
          => \E c \in ConcCalls(p, "ContainerCreate") : c.target = e.target

\* the create requests of invocation p
CreatesOf(p) == ConcCalls(p, "ContainerCreate")

\* positions in the history of the host's ports of the op events of p
PortEvents(p, op) ==
    {k \in 1..Len(conc.ports) : conc.ports[k].p = p /\ conc.ports[k].op = op}

\* C17, as claimed: each invocation operates only on the container of its
\* own create, and the two invocations never issue create requests that
\* bind the same host port.
C17_IndependentContainersAndPorts ==
    /\ OwnContainerOnly
    /\ \A a \in CreatesOf(1), b \in CreatesOf(2) : a.port # b.port

\* C17, amended: each invocation operates only on the container of its own
\* create and the two containers differ; the two create requests bind the
\* same host port only when the randomPort listener of one invocation was
\* closed before the listener of the other was opened.
C17_IndependentContainersBestEffortPorts ==
    /\ OwnContainerOnly
    /\ \A a \in CreatesOf(1), b \in CreatesOf(2) :
         /\ (a.target # Nil /\ b.target # Nil) => a.target # b.target
         /\ a.port = b.port
              => \/ \E x \in PortEvents(1, "l.Close"), y \in PortEvents(2, "net.Listen") : x < y
                 \/ \E x \in PortEvents(2, "l.Close"), y \in PortEvents(1, "net.Listen") : x < y
    /\ \A p \in Procs, q \in Procs :
         (p # q /\ conc.proc[p].pc = "close" /\ conc.proc[q].pc = "close")
           => conc.proc[p].port # conc.proc[q].port

C17_Witness ==
    /\ \A p \in Procs : conc.proc[p].pc = "returned"
    /\ \E a \in CreatesOf(1), b \in CreatesOf(2) :
         a.port = b.port /\ a.target # Nil /\ b.target # Nil
    /\ conc.proc[1].handle # Nil
    /\ conc.proc[1].sleeps > 0
    /\ conc.proc[2].ret = "ContainerStart: port is already allocated"
    /\ ConcCalls(2, "ContainerRemove") # {}
    /\ conc.cont[conc.proc[2].id].state = "absent"

----------------
(* RunMigrations, src/migration.go                                         *)

\* the bytes of ".up.sql"
UpSqlBytes == <<46, 117, 112, 46, 115, 113, 108>>

\* a directory entry: its name and the bytes of the name
MigFile(text, bytes) == [text |-> text, bytes |-> bytes]

\* the entries a migration directory can hold; 45 is '-', 46 is '.',
\* 48..50 are '0'..'2', 97 is 'a'
MigFiles ==
    { MigFile("1.up.sql", <<49>> \o UpSqlBytes),
      MigFile("10.up.sql", <<49, 48>> \o UpSqlBytes),
      MigFile("2.up.sql", <<50>> \o UpSqlBytes),
      MigFile("1-a.up.sql", <<49, 45, 97>> \o UpSqlBytes),
      MigFile("1.down.sql", <<49, 46, 100, 111, 119, 110, 46, 115, 113, 108>>) }

\* filepath.Match("*.up.sql", name): the name ends with ".up.sql"
MatchUpSql(f) ==
    /\ Len(f.bytes) >= Len(UpSqlBytes)
    /\ SubSeq(f.bytes, Len(f.bytes) - Len(UpSqlBytes) + 1, Len(f.bytes)) = UpSqlBytes

\* Go's < on strings: bytewise, a proper prefix is smaller
RECURSIVE BytesLess(_, _)
BytesLess(a, b) ==
    IF b = <<>> THEN FALSE
    ELSE IF a = <<>> THEN TRUE
    ELSE IF Head(a) # Head(b) THEN Head(a) < Head(b)
    ELSE BytesLess(Tail(a), Tail(b))

FileLess(f, g) == BytesLess(f.bytes, g.bytes)

\* the orders in which the members of S can be listed
Orders(S) ==
    {s \in [1..Cardinality(S) -> S] : \A i, j \in 1..Cardinality(S) : i # j => s[i] # s[j]}

\* the list left as Glob returned it
SortStringsSkipped(fs) == fs

\* sort.Strings(filenames)
SortStrings(fs) == SortSeq(fs, FileLess)

\* string(data) of a file that was read
Content(f) == "-- " \o f.text

\* fmt.Errorf("... error: %w", err)
Wrap(prefix, e) == prefix \o ": " \o e

ReadErr(f) == "open " \o f.text \o ": permission denied"

ExecErr == "error"

BadPatternErr == "syntax error in pattern"

MigInit ==
    mig \in [pc : {"glob"}, dir : SUBSET MigFiles, badPattern : BOOLEAN,
             globbed : {<<>>}, filenames : {<<>>}, i : {0}, data : {Nil},
             execs : {<<>>}, ret : {Nil}]

\* filepath.Glob, its error check, and sort.Strings
MigGlob ==
    /\ mig.pc = "glob"
    /\ IF mig.badPattern
       THEN mig' = [mig EXCEPT !.pc = "returned",
                               !.ret = Wrap("glob migrationDir error", BadPatternErr)]
       ELSE \E g \in Orders({f \in mig.dir : MatchUpSql(f)}) :
                mig' = [mig EXCEPT !.pc = "read", !.globbed = g,
                                   !.filenames = SortStrings(g), !.i = 1]
    /\ UNCHANGED <<startVars, polling, randpw, conc, scn>>

\* os.ReadFile(filename) and its error check
MigRead ==
    /\ mig.pc = "read"
    /\ mig.i <= Len(mig.filenames)
    /\ LET f == mig.filenames[mig.i]
       IN \/ mig' = [mig EXCEPT !.pc = "exec", !.data = Content(f)]
          \/ mig' = [mig EXCEPT !.pc = "returned",
                                !.ret = Wrap("read file error", ReadErr(f))]
    /\ UNCHANGED <<startVars, polling, randpw, conc, scn>>

\* db.ExecContext(ctx, string(data)) and its error check
MigExec ==
    /\ mig.pc = "exec"
    /\ \E e \in {Nil, ExecErr} :
         mig' = [mig EXCEPT
                   !.execs = Append(@, [file |-> mig.filenames[mig.i],
                                         query |-> mig.data, res |-> e]),
                   !.pc = IF e = Nil THEN "read" ELSE "returned",
                   !.i = IF e = Nil THEN @ + 1 ELSE @,
                   !.data = Nil,
                   !.ret = IF e = Nil THEN @ ELSE Wrap("exec file error", e)]
    /\ UNCHANGED <<startVars, polling, randpw, conc, scn>>

\* the loop is over: return nil
MigReturn ==
    /\ mig.pc = "read"
    /\ mig.i > Len(mig.filenames)
    /\ mig' = [mig EXCEPT !.pc = "returned", !.ret = Nil]
    /\ UNCHANGED <<startVars, polling, randpw, conc, scn>>

InitMigrations ==
    /\ StartIdle
    /\ MigInit
    /\ randpw = Idle /\ conc = Idle /\ scn = Idle /\ polling = Idle

NextMigrations == MigGlob \/ MigRead \/ MigExec \/ MigReturn

SpecMigrations == InitMigrations /\ [][NextMigrations]_vars

\* the matching files of the directory, smallest name first
Matching == {f \in mig.dir : MatchUpSql(f)}

Ascending ==
    CHOOSE s \in Orders(Matching) :
        \A i, j \in 1..Len(s) : i < j => BytesLess(s[i].bytes, s[j].bytes)

\* C19: the files executed are the matching files, each once, smallest
\* name first, up to the first read or exec failure, whose wrapped error is
\* returned; nil is returned only after every matching file was executed
\* successfully, and with no matching file nothing is executed and nil is
\* returned.
C19_MigrationsInOrderUntilFirstFailure ==
    LET n == Len(mig.execs)
    IN /\ n <= Len(Ascending)
       /\ \A k \in 1..n :
            /\ mig.execs[k].file = Ascending[k]
            /\ mig.execs[k].query = Content(Ascending[k])
            /\ k < n => mig.execs[k].res = Nil
       /\ (mig.pc = "returned" /\ ~mig.badPattern) =>
            /\ mig.ret = Nil
                 <=> (n = Len(Ascending) /\ \A k \in 1..n : mig.execs[k].res = Nil)
            /\ mig.ret # Nil =>
                 \/ /\ n > 0
                    /\ mig.execs[n].res # Nil
                    /\ mig.ret = "exec file error: " \o mig.execs[n].res
                 \/ /\ n < Len(Ascending)
                    /\ \A k \in 1..n : mig.execs[k].res = Nil
                    /\ mig.ret = "read file error: " \o ReadErr(Ascending[n + 1])
            /\ Matching = {} => (mig.ret = Nil /\ n = 0)
       /\ (mig.pc = "returned" /\ mig.badPattern) => (n = 0 /\ mig.ret # Nil)

C19_Witness ==
    /\ mig.pc = "returned"
    /\ Cardinality(Matching) = 4
    /\ mig.globbed # mig.filenames
    /\ Len(mig.execs) = 3
    /\ mig.execs[1].file.text = "1-a.up.sql"
    /\ mig.execs[2].file.text = "1.up.sql"
    /\ mig.execs[3].file.text = "10.up.sql"
    /\ mig.ret = "exec file error: error"

----------------------------------------------------------------------------
(* LoadScenario, src/scenario.go                                           *)

\* the longest list of rows of a table
MaxRows == 2

ScnTables == {"users", "posts"}

\* the rows a scenario file can hold: a map from the keys present to values
ScnRows ==
    { [id |-> "1", name |-> "Alice"],
      [id |-> "2"],
      [name |-> "null"],
      [c \in {} |-> "null"] }

RowLists == UNION {[1..n -> ScnRows] : n \in 0..MaxRows}

\* what yaml.Unmarshal can fill result with
Scenarios == UNION {[T -> RowLists] : T \in SUBSET ScnTables}

\* strings.Join(elems, sep)
RECURSIVE Join(_, _)
Join(elems, sep) ==
    IF elems = <<>> THEN ""
    ELSE IF Len(elems) = 1 THEN elems[1]
    ELSE elems[1] \o sep \o Join(Tail(elems), sep)

\* %q of a table name without quotes, backslashes or control characters
Quote(table) == "\"" \o table \o "\""

\* placeholders numbered from the length of the list
PlaceholderFromZero(n) == "$" \o ToString(n)

\* fmt.Sprintf("$%d", len(placeholders)+1), n placeholders appended so far
Placeholder(n) == "$" \o ToString(n + 1)

\* fmt.Sprintf("INSERT INTO %q (%s) VALUES (%s)", ...)
InsertQuery(table, columns, placeholders) ==
    "INSERT INTO " \o Quote(table) \o " (" \o Join(columns, ", ")
        \o ") VALUES (" \o Join(placeholders, ", ") \o ")"

\* the three lists after the loop over the row, the keys visited in order cs
RECURSIVE RowLoop(_, _, _)
RowLoop(row, cs, acc) ==
    IF cs = <<>> THEN acc
    ELSE RowLoop(row, Tail(cs),
                 [columns |-> Append(acc.columns, Head(cs)),
                  placeholders |-> Append(acc.placeholders,
                                          Placeholder(Len(acc.placeholders))),
                  values |-> Append(acc.values, row[Head(cs)])])

ScnInit ==
    scn \in [pc : {"read"}, result : Scenarios, visited : {{}}, table : {Nil},
             r : {0}, query : {Nil}, values : {<<>>}, execs : {<<>>}, ret : {Nil}]

\* os.ReadFile and yaml.Unmarshal, each returning its error
ScnRead ==
    /\ scn.pc = "read"
    /\ \/ scn' = [scn EXCEPT !.pc = "table"]
       \/ \E e \in {"open scenario.yml: no such file or directory",
                    "yaml: unmarshal errors"} :
            scn' = [scn EXCEPT !.pc = "returned", !.ret = e]
    /\ UNCHANGED <<startVars, polling, randpw, conc, mig>>

\* for table, rows := range result: the next key, in the map's order
ScnTable ==
    /\ scn.pc = "table"
    /\ \E t \in DOMAIN scn.result \ scn.visited :
         scn' = [scn EXCEPT !.pc = "row", !.table = t, !.r = 1,
                            !.visited = @ \cup {t}]
    /\ UNCHANGED <<startVars, polling, randpw, conc, mig>>

\* for _, row := range rows: build the lists and the query of the next row
ScnRow ==
    /\ scn.pc = "row"
    /\ IF scn.r <= Len(scn.result[scn.table])
       THEN LET row == scn.result[scn.table][scn.r]
            IN \E cs \in Orders(DOMAIN row) :
                 LET l == RowLoop(row, cs, [columns |-> <<>>, placeholders |-> <<>>,
                                            values |-> <<>>])
                 IN scn' = [scn EXCEPT
                              !.pc = "exec",
                              !.query = InsertQuery(scn.table, l.columns, l.placeholders),
                              !.values = l.values]
       ELSE scn' = [scn EXCEPT !.pc = "table"]
    /\ UNCHANGED <<startVars, polling, randpw, conc, mig>>

\* db.ExecContext(ctx, query, values...) and its error check
ScnExec ==
    /\ scn.pc = "exec"
    /\ \E e \in {Nil, ExecErr} :
         scn' = [scn EXCEPT
                   !.execs = Append(@, [table |-> scn.table, query |-> scn.query,
                                         args |-> scn.values, res |-> e]),
                   !.pc = IF e = Nil THEN "row" ELSE "returned",
                   !.r = IF e = Nil THEN @ + 1 ELSE @,
                   !.query = Nil,
                   !.values = <<>>,
                   !.ret = e]
    /\ UNCHANGED <<startVars, polling, randpw, conc, mig>>

\* every table was visited: return nil
ScnReturn ==
    /\ scn.pc = "table"
    /\ DOMAIN scn.result \ scn.visited = {}
    /\ scn' = [scn EXCEPT !.pc = "returned", !.ret = Nil]
    /\ UNCHANGED <<startVars, polling, randpw, conc, mig>>

InitScenario ==
    /\ StartIdle
    /\ ScnInit
    /\ randpw = Idle /\ conc = Idle /\ mig = Idle /\ polling = Idle

NextScenario == ScnRead \/ ScnTable \/ ScnRow \/ ScnExec \/ ScnReturn

SpecScenario == InitScenario /\ [][NextScenario]_vars

\* the INSERTs issued for table t, in the order issued
RECURSIVE ExecsOf(_, _)
ExecsOf(t, es) ==
    IF es = <<>> THEN <<>>
    ELSE IF Head(es).table = t THEN <<Head(es)>> \o ExecsOf(t, Tail(es))
    ELSE ExecsOf(t, Tail(es))

\* "$1", ..., "$k"
Dollars(k) == [i \in 1..k |-> "$" \o ToString(i)]

\* e is the INSERT of row into t: its columns are the keys of the row in
\* some order, its placeholders $1..$k and its arguments the values of the
\* columns as listed
InsertsRow(e, t, row) ==
    \E cs \in Orders(DOMAIN row) :
        /\ e.query = "INSERT INTO \"" \o t \o "\" (" \o Join(cs, ", ")
                        \o ") VALUES (" \o Join(Dollars(Len(cs)), ", ") \o ")"
        /\ e.args = [i \in 1..Len(cs) |-> row[cs[i]]]

\* C20: the INSERTs of a table are one per row, in file order, each with
\* exactly the keys of its row, placeholders $1..$k and the values aligned
\* with the columns; an exec error is the last INSERT issued and is what
\* LoadScenario returns; nil is returned after every row of every table
\* was inserted.
C20_OneInsertPerRowInFileOrder ==
    /\ \A k \in 1..Len(scn.execs) :
         /\ scn.execs[k].table \in DOMAIN scn.result
         /\ k < Len(scn.execs) => scn.execs[k].res = Nil
    /\ \A t \in DOMAIN scn.result :
         LET es == ExecsOf(t, scn.execs)
         IN /\ Len(es) <= Len(scn.result[t])
            /\ \A k \in 1..Len(es) : InsertsRow(es[k], t, scn.result[t][k])
            /\ (scn.pc = "returned" /\ scn.ret = Nil) => Len(es) = Len(scn.result[t])
    /\ (scn.pc = "returned" /\ scn.execs # <<>>) =>
         scn.ret = scn.execs[Len(scn.execs)].res
    /\ (scn.pc = "returned" /\ scn.ret = Nil) =>
         \A k \in 1..Len(scn.execs) : scn.execs[k].res = Nil

C20_Witness ==
    /\ scn.pc = "returned"
    /\ scn.ret = ExecErr
    /\ Len(scn.execs) = 3
    /\ scn.execs[1].query = "INSERT INTO \"users\" (name, id) VALUES ($1, $2)"
    /\ scn.execs[1].args = <<"Alice", "1">>
    /\ scn.execs[2].query = "INSERT INTO \"users\" () VALUES ()"
    /\ scn.execs[3].query = "INSERT INTO \"posts\" (id) VALUES ($1)"
    /\ scn.execs[3].res = ExecErr
    /\ Len(scn.result["posts"]) = 2

----------------------------------------------------------------------------
\* ContainerStart succeeded: a failure after it is a failure of the health
\* phase or of the connectivity phase
StartSucceeded == \E i \in CallsTo("ContainerStart") : calls[i].res = Nil

\* C21: with options, a failure of the health or connectivity phase is
\* followed by exactly one ContainerStop and then exactly one
\* ContainerRemove on the created id; the remove is attempted whatever the
\* stop returned.
C21_RollbackStopThenRemove ==
    /\ \A i \in CallsTo("ContainerStop"), j \in CallsTo("ContainerRemove") : i < j
    /\ (variant = "options" /\ pc = "returned" /\ StartSucceeded /\ ret.err # Nil) =>
         /\ \E i \in CallsTo("ContainerStop") :
              /\ CallsTo("ContainerStop") = {i}
              /\ calls[i].target = createID
         /\ \E j \in CallsTo("ContainerRemove") :
              /\ CallsTo("ContainerRemove") = {j}
              /\ calls[j].target = createID

C21_Witness ==
    /\ variant = "options"
    /\ pc = "returned"
    /\ ret.err = DeadlineExceeded
    /\ \E j \in CallsTo("Ping") : calls[j].res # Nil
    /\ \E i \in CallsTo("ContainerStop"), j \in CallsTo("ContainerRemove") :
         i < j /\ calls[i].res # Nil

\* C22: the compensating ContainerStop and ContainerRemove are called
\* before the deferred cancel of the startup scope has run, so the context
\* they are given has not been cancelled by StartPostgresContainer itself.
C22_RollbackBeforeOwnCancel ==
    \A i \in CallsTo("ContainerStop") \cup CallsTo("ContainerRemove") :
        StartSucceeded => \A k \in CallsTo("cancel") : i < k

\* C23: without options, a health loop left with an error is followed by a
\* stop and a remove of the created container, as a failure of
\* waitUntilConnectable is.
C23_HealthLoopErrorRollsBack ==
    (variant = "plain" /\ pc = "returned" /\ StartSucceeded /\ ret.err # Nil) =>
        /\ \E i \in CallsTo("ContainerStop") : calls[i].target = createID
        /\ \E j \in CallsTo("ContainerRemove") : calls[j].target = createID

\* C25: when a handle is returned with a nil error, StartPostgresContainer
\* has called neither ContainerStop nor ContainerRemove, and the created
\* container is running when the caller receives the handle.
C25_SuccessLeavesContainerRunning ==
    (HandleReturned /\ ret.err = Nil) =>
        /\ CallsTo("ContainerStop") = {}
        /\ CallsTo("ContainerRemove") = {}
        /\ pc \in {"defers", "returned"} => containers[ret.handle.id] = "running"

C25_Witness ==
    /\ pc = "returned"
    /\ ret.handle # NoHandle
    /\ ret.err = Nil
    /\ defers = <<>>
    /\ CallsTo("cancel") # {}
    /\ containers[ret.handle.id] = "running"

----------------------------------------------------------------------------
(* The two polling loops under the startup scope, from context.WithTimeout *)
(* to the return, with no bound on how long the status stays "starting"    *)
(* or the pings fail                                                       *)

\* the count of iterations is kept up to this many
MaxPolls == 3

\* ctx.Err() of the startup scope
PollCtxErr == IF polling.scope = "live" THEN Nil ELSE polling.scope

\* a select that never takes the Done case
PollSelectDoneNever == FALSE

\* case <-ctx.Done() of the select that opens each iteration
PollSelectDone == polling.scope # "live"

\* outcomes of a context-aware call under the startup scope
PollCallErrs(op) == IF polling.scope # "live" THEN {PollCtxErr} ELSE {Nil, DaemonErr(op)}

Counted(n) == IF n < MaxPolls THEN n + 1 ELSE n

\* return nil, e or return handle, nil: the deferred functions run next
PollReturn(e) ==
    [polling EXCEPT !.pc = "defers", !.ret = e, !.handle = (e = Nil)]

\* a return of e out of the health loop; the variant without options
\* leaves its error variable as it is
PollHealthReturn(e) ==
    [PollReturn(e) EXCEPT !.errCnr = HealthLoopErr(polling.variant, e, polling.errCnr)]

\* a return of e out of waitUntilConnectable
PollConnReturn(e) == [PollReturn(e) EXCEPT !.errCnr = e]

PollInit ==
    polling \in [pc : {"healthSelect"}, variant : Variants,
                 scope : {"live", Canceled}, polls : {0}, pings : {0},
                 lastPing : {Nil}, errCnr : {Nil}, ret : {Nil}, handle : {FALSE},
                 defers : {<<"cancel", "stop", "remove", "close">>}]

\* the select of the health loop
PollHealthSelect ==
    /\ polling.pc = "healthSelect"
    /\ polling' = IF PollSelectDone THEN PollHealthReturn(PollCtxErr)
                  ELSE [polling EXCEPT !.pc = "inspect"]
    /\ UNCHANGED <<startVars, randpw, conc, mig, scn>>

\* cli.ContainerInspect and the switch on the status
PollInspect ==
    /\ polling.pc = "inspect"
    /\ \/ \E e \in PollCallErrs("ContainerInspect") \ {Nil} :
            polling' = PollHealthReturn(InspectErr(polling.variant, e))
       \/ /\ polling.scope = "live"
          /\ \E status \in {"starting", "healthy", "unhealthy"} :
               polling' =
                 CASE HealthVerdict(status) = "fail" -> PollHealthReturn("container unhealthy")
                   [] HealthVerdict(status) = "advance" -> [polling EXCEPT !.pc = "sqlOpen"]
                   [] OTHER -> [polling EXCEPT !.pc = "healthSleep"]
    /\ UNCHANGED <<startVars, randpw, conc, mig, scn>>

\* time.Sleep(waitInterval) of the health loop
PollHealthSleep ==
    /\ polling.pc = "healthSleep"
    /\ polling' = [polling EXCEPT !.pc = "healthSelect", !.polls = Counted(@)]
    /\ UNCHANGED <<startVars, randpw, conc, mig, scn>>

\* sql.Open("pgx", connStr)
PollSqlOpen ==
    /\ polling.pc = "sqlOpen"
    /\ \/ polling' = [polling EXCEPT !.pc = "connSelect"]
       \/ polling' = PollConnReturn("sql.Open: cannot parse connection string")
    /\ UNCHANGED <<startVars, randpw, conc, mig, scn>>

\* the select of the ping loop
PollConnSelect ==
    /\ polling.pc = "connSelect"
    /\ polling' = IF PollSelectDone THEN PollConnReturn(PollCtxErr)
                  ELSE [polling EXCEPT !.pc = "ping"]
    /\ UNCHANGED <<startVars, randpw, conc, mig, scn>>

\* db.PingContext(ctx): nil ends the loop, anything else sleeps
PollPing ==
    /\ polling.pc = "ping"
    /\ \E e \in (IF polling.scope # "live" THEN {PollCtxErr}
                 ELSE {Nil, "ping: connection refused"}) :
         polling' = IF PingReady(e)
                    THEN [PollConnReturn(Nil) EXCEPT !.lastPing = e]
                    ELSE [polling EXCEPT !.pc = "connSleep", !.lastPing = e]
    /\ UNCHANGED <<startVars, randpw, conc, mig, scn>>

\* time.Sleep(waitInterval) of the ping loop
PollConnSleep ==
    /\ polling.pc = "connSleep"
    /\ polling' = [polling EXCEPT !.pc = "connSelect", !.pings = Counted(@)]
    /\ UNCHANGED <<startVars, randpw, conc, mig, scn>>

\* the next deferred function: cancel(), then the stop and remove closures,
\* whose calls return whatever their outcome, then cli.Close()
PollDefer ==
    /\ polling.pc = "defers"
    /\ polling.defers # <<>>
    /\ polling' = [polling EXCEPT
                     !.defers = Tail(@),
                     !.scope = IF Head(polling.defers) = "cancel" /\ @ = "live"
                               THEN Canceled ELSE @]
    /\ UNCHANGED <<startVars, randpw, conc, mig, scn>>

\* the caller has the results
PollReturned ==
    /\ polling.pc = "defers"
    /\ polling.defers = <<>>
    /\ polling' = [polling EXCEPT !.pc = "returned"]
    /\ UNCHANGED <<startVars, randpw, conc, mig, scn>>

\* waitTimeout elapses
PollDeadline ==
    /\ polling.scope = "live"
    /\ polling' = [polling EXCEPT !.scope = DeadlineExceeded]
    /\ UNCHANGED <<startVars, randpw, conc, mig, scn>>

\* the caller cancels its context
PollCallerCancel ==
    /\ polling.scope = "live"
    /\ polling.pc # "returned"
    /\ polling' = [polling EXCEPT !.scope = Canceled]
    /\ UNCHANGED <<startVars, randpw, conc, mig, scn>>

\* the steps of StartPostgresContainer itself
PollStep ==
    \/ PollHealthSelect
    \/ PollInspect
    \/ PollHealthSleep
    \/ PollSqlOpen
    \/ PollConnSelect
    \/ PollPing
    \/ PollConnSleep
    \/ PollDefer
    \/ PollReturned

InitPolling ==
    /\ StartIdle
    /\ PollInit
    /\ randpw = Idle /\ conc = Idle /\ mig = Idle /\ scn = Idle

NextPolling == PollStep \/ PollDeadline \/ PollCallerCancel

\* every call and every sleep returns, and the deadline fires while the
\* scope is live
SpecPolling ==
    /\ InitPolling
    /\ [][NextPolling]_vars
    /\ WF_vars(PollStep)
    /\ WF_vars(PollDeadline)

\* a ping that failed is followed by the sleep, not by a return
PingRetried ==
    (polling.pc = "ping" /\ polling'.pc # "ping" /\ polling'.lastPing # Nil)
      => polling'.pc = "connSleep"

\* once in the ping loop, an error is returned only from the select that
\* found the context done
PingLoopLeftOnDone ==
    (polling.pc \in {"connSelect", "ping", "connSleep"} /\ polling'.pc = "defers"
       /\ polling'.ret # Nil)
      => (polling.pc = "connSelect" /\ polling.scope # "live"
            /\ polling'.ret = polling.scope)

\* C24: every call returning and the deadline firing, StartPostgresContainer
\* returns, however long the status stays "starting" and the pings fail; a
\* failed ping leads to the sleep and the next iteration, and the ping loop
\* returns an error only when its select finds the context done.
C24_PollingTerminates ==
    /\ <>(polling.pc = "returned")
    /\ [][PingRetried /\ PingLoopLeftOnDone]_vars

C24_Witness ==
    /\ polling.pc = "returned"
    /\ polling.polls = MaxPolls
    /\ polling.pings = MaxPolls
    /\ polling.lastPing = DeadlineExceeded
    /\ polling.ret = DeadlineExceeded

====
